---- MODULE Spec2Model ----
(***************************************************************************)
(* Model of ritual's C++ declaration model (ritual/src/cpp_function.rs):   *)
(* CppFunction and its queries, the equivalence relations                  *)
(* argument_types_equal / is_same, and the Qt receiver-id encoder.         *)
(*                                                                         *)
(* All modelled operations are pure functions of immutable data, so the    *)
(* state machine is a harness: Init draws the inputs from bounded sets of  *)
(* declarations, each action applies one operation and records its         *)
(* outcome in `res` (and which operation it was in `op`).                  *)
(*                                                                         *)
(* Text (Rust String / &str) is a sequence of one-character strings.       *)
(* Option<T> is a sequence of length 0 (None) or 1 (Some).                 *)
(***************************************************************************)
EXTENDS Integers, Sequences, FiniteSets, TLC

\* ------------------------------------------------------------------ bounds

\* Longest argument list drawn for the receiver encoder's direct inputs.
MaxArgs == 2

\* ------------------------------------------------------------ Option / Result

None == <<>>

Some(x) == <<x>>

is_some(o) == Len(o) = 1

is_none(o) == Len(o) = 0

\* Result<T>: Ok(v) or Err(message); `message` is the text given to bail!/err_msg.
Ok(v) == [ok |-> TRUE, value |-> v]

Err(m) == [ok |-> FALSE, error |-> m]

\* Outcome of a call: it returned a value, or it panicked (Result::unwrap on Err).
Returned(v) == [outcome |-> "returned", value |-> v]

Panicked == [outcome |-> "panicked"]

\* ------------------------------------------------------------------- text

RECURSIVE join(_, _)
\* itertools::Itertools::join: the items separated by sep.
join(items, sep) ==
    IF Len(items) = 0 THEN <<>>
    ELSE IF Len(items) = 1 THEN items[1]
    ELSE items[1] \o sep \o join(Tail(items), sep)

RECURSIVE str_replace(_, _, _)
\* str::replace: every non-overlapping match of `from`, left to right, becomes `to`.
str_replace(s, from, to) ==
    IF Len(s) < Len(from) THEN s
    ELSE IF SubSeq(s, 1, Len(from)) = from
         THEN to \o str_replace(SubSeq(s, Len(from) + 1, Len(s)), from, to)
         ELSE <<Head(s)>> \o str_replace(Tail(s), from, to)

T_int == <<"i", "n", "t">>

T_void == <<"v", "o", "i", "d">>

T_const == <<"c", "o", "n", "s", "t", " ">>

T_QList == <<"Q", "L", "i", "s", "t">>

T_QMap == <<"Q", "M", "a", "p">>

T_QPair == <<"Q", "P", "a", "i", "r">>

T_valueChanged == <<"v", "a", "l", "u", "e", "C", "h", "a", "n", "g", "e", "d">>

T_QModelIndex == <<"Q", "M", "o", "d", "e", "l", "I", "n", "d", "e", "x">>

\* "QList< QModelIndex >"
T_QListOfQModelIndex == T_QList \o <<"<", " ">> \o T_QModelIndex \o <<" ", ">">>

\* "QModelIndexList"
T_QModelIndexList == T_QModelIndex \o <<"L", "i", "s", "t">>

\* ------------------------------------------------------------ type model

\* CppType::Void
Void == [tag |-> "Void"]

\* CppType::BuiltInNumeric(CppBuiltInNumericType::Int)
Int_ == [tag |-> "BuiltInNumeric"]

\* CppType::TemplateParameter(CppTemplateParameter { name, .. })
TemplateParameter(n) == [tag |-> "TemplateParameter", name |-> n]

\* CppType::Class(path)
Class(path) == [tag |-> "Class", path |-> path]

\* CppType::PointerLike { is_const, kind, target }
PointerLike(is_const, kind, target) ==
    [tag |-> "PointerLike", is_const |-> is_const, kind |-> kind, target |-> target]

\* CppType::new_reference(is_const, target)
new_reference(is_const, target) == PointerLike(is_const, "Reference", target)

\* CppType::new_pointer(is_const, target)
new_pointer(is_const, target) == PointerLike(is_const, "Pointer", target)

\* CppPathItem { name, template_arguments }
PathItem(n, targs) == [name |-> n, template_arguments |-> targs]

\* CppPathItem::from_good_str
Item(n) == PathItem(n, None)

\* CppPath::last
last(path) == path[Len(path)]

\* CppPath::parent_parts: all segments but the last; fails on a single segment.
parent_parts(path) ==
    IF Len(path) > 1 THEN Ok(SubSeq(path, 1, Len(path) - 1))
    ELSE Err("failed to get parent path")

\* CppPath::parent
parent(path) == parent_parts(path)

RECURSIVE contains_template_parameter(_, _)
\* CppType::contains_template_parameter: param occurs in t as a sub-term.
contains_template_parameter(t, param) ==
    CASE t.tag = "TemplateParameter" -> t = param
      [] t.tag = "PointerLike" -> contains_template_parameter(t.target, param)
      [] t.tag = "Class" ->
            \E i \in 1..Len(t.path) :
                /\ is_some(t.path[i].template_arguments)
                /\ \E k \in 1..Len(t.path[i].template_arguments[1]) :
                       contains_template_parameter(t.path[i].template_arguments[1][k], param)
      [] OTHER -> FALSE

RECURSIVE type_to_cpp_code(_)
RECURSIVE types_to_cpp_code(_)
RECURSIVE path_to_cpp_code(_)
\* CppType::to_cpp_code(None): the C++ spelling; a template parameter has none.
type_to_cpp_code(t) ==
    CASE t.tag = "Void" -> Ok(T_void)
      [] t.tag = "BuiltInNumeric" -> Ok(T_int)
      [] t.tag = "TemplateParameter" -> Err("template parameters are not allowed in C++ code")
      [] t.tag = "Class" -> path_to_cpp_code(t.path)
      [] t.tag = "PointerLike" ->
            LET inner == type_to_cpp_code(t.target) IN
            IF ~inner.ok THEN inner
            ELSE Ok((IF t.is_const THEN T_const ELSE <<>>) \o inner.value
                    \o (IF t.kind = "Pointer" THEN <<"*">> ELSE <<"&">>))

\* map_if_ok over a list of types: all spellings, or the first failure.
types_to_cpp_code(ts) ==
    IF Len(ts) = 0 THEN Ok(<<>>)
    ELSE LET h1 == type_to_cpp_code(ts[1]) IN
         IF ~h1.ok THEN h1
         ELSE LET rest == types_to_cpp_code(Tail(ts)) IN
              IF ~rest.ok THEN rest ELSE Ok(<<h1.value>> \o rest.value)

\* CppPath::to_cpp_code: segments joined by "::", template arguments as "< a, b >".
path_to_cpp_code(path) ==
    LET item == path[1]
        targs == IF is_some(item.template_arguments)
                 THEN types_to_cpp_code(item.template_arguments[1])
                 ELSE Ok(<<>>)
        rest == IF Len(path) > 1 THEN path_to_cpp_code(Tail(path)) ELSE Ok(<<>>)
    IN  IF ~targs.ok THEN targs
        ELSE IF ~rest.ok THEN rest
        ELSE Ok(item.name
                \o (IF is_some(item.template_arguments)
                    THEN <<"<", " ">> \o join(targs.value, <<",", " ">>) \o <<" ", ">">>
                    ELSE <<>>)
                \o (IF Len(path) > 1 THEN <<":", ":">> \o rest.value ELSE <<>>))

\* ------------------------------------------------------- declaration model

\* CppFunctionArgument { name, argument_type, has_default_value }
CppFunctionArgument(n, t, d) ==
    [name |-> n, argument_type |-> t, has_default_value |-> d]

\* CppFunctionKind
CppFunctionKind == {"Regular", "Constructor", "Destructor"}

\* CppVisibility
CppVisibility == {"Public", "Protected", "Private"}

\* CppFunctionMemberData
CppFunctionMemberData(kind, is_const, is_static) ==
    [kind |-> kind, is_virtual |-> FALSE, is_pure_virtual |-> FALSE,
     is_const |-> is_const, is_static |-> is_static, visibility |-> "Public",
     is_signal |-> FALSE, is_slot |-> FALSE]

\* CppFunction
CppFunction(path, member, operator, return_type, arguments, variadic) ==
    [path |-> path, member |-> member, operator |-> operator,
     return_type |-> return_type, arguments |-> arguments,
     allows_variadic_arguments |-> variadic,
     cast |-> None, declaration_code |-> None]

\* CppFunctionKind::is_constructor
kind_is_constructor(kind) == kind = "Constructor"

\* CppFunctionKind::is_destructor
kind_is_destructor(kind) == kind = "Destructor"

\* Mutant of argument_types_equal: a template parameter on either side is taken
\* to match any type.
argument_types_equal_template_wildcard(self, other) ==
    IF Len(self.arguments) # Len(other.arguments) THEN FALSE
    ELSE IF self.allows_variadic_arguments # other.allows_variadic_arguments THEN FALSE
    ELSE \A i \in 1..Len(self.arguments) :
             \/ self.arguments[i].argument_type = other.arguments[i].argument_type
             \/ self.arguments[i].argument_type.tag = "TemplateParameter"
             \/ other.arguments[i].argument_type.tag = "TemplateParameter"

\* Mutant of argument_types_equal: zip() without the length check, so the longer
\* list's tail is never looked at.
argument_types_equal_zip_only(self, other) ==
    IF self.allows_variadic_arguments # other.allows_variadic_arguments THEN FALSE
    ELSE \A i \in 1..Len(self.arguments) :
             i <= Len(other.arguments) =>
                 self.arguments[i].argument_type = other.arguments[i].argument_type

\* CppFunction::argument_types_equal
argument_types_equal(self, other) ==
    IF Len(self.arguments) # Len(other.arguments) THEN FALSE
    ELSE IF self.allows_variadic_arguments # other.allows_variadic_arguments THEN FALSE
    ELSE \A i \in 1..Len(self.arguments) :
             self.arguments[i].argument_type = other.arguments[i].argument_type

\* Mutant of CppFunctionMemberData::is_same: is_static is not compared.
member_is_same_without_static(m1, m2) ==
    /\ m1.kind = m2.kind
    /\ m1.is_const = m2.is_const

\* Mutant of CppFunctionMemberData::is_same: the derived equality of all fields.
member_is_same_derived_eq(m1, m2) == m1 = m2

\* CppFunctionMemberData::is_same
member_is_same(m1, m2) ==
    /\ m1.kind = m2.kind
    /\ m1.is_const = m2.is_const
    /\ m1.is_static = m2.is_static

\* Mutant of CppFunction::is_same: the derived equality of all fields.
is_same_derived_eq(self, other) == self = other

\* Mutant of CppFunction::is_same: a free function on the left matches anything,
\* (None, _) => true.
is_same_none_matches_any(self, other) ==
    LET member_is_same_ ==
            IF is_some(self.member) /\ is_some(other.member)
            THEN member_is_same(self.member[1], other.member[1])
            ELSE is_none(self.member)
    IN  /\ self.path = other.path
        /\ member_is_same_
        /\ self.operator = other.operator
        /\ self.return_type = other.return_type
        /\ argument_types_equal(self, other)

\* CppFunction::is_same
is_same(self, other) ==
    LET member_is_same_ ==
            IF is_some(self.member) /\ is_some(other.member)
            THEN member_is_same(self.member[1], other.member[1])
            ELSE is_none(self.member) /\ is_none(other.member)
    IN  /\ self.path = other.path
        /\ member_is_same_
        /\ self.operator = other.operator
        /\ self.return_type = other.return_type
        /\ argument_types_equal(self, other)

\* Mutant of class_path: the member check is left out, so a free function with a
\* nested path gets its namespace as class path.
class_path_without_member_check(self) ==
    LET p == parent(self.path) IN
    IF p.ok THEN p
    ELSE Err("CppFunction is a class member but its path is not nested.")

\* CppFunction::class_path
class_path(self) ==
    IF is_some(self.member)
    THEN LET p == parent(self.path) IN
         IF p.ok THEN p
         ELSE Err("CppFunction is a class member but its path is not nested.")
    ELSE Err("not a member function")

\* CppFunction::class_path_parts
class_path_parts(self) ==
    IF is_some(self.member)
    THEN LET p == parent_parts(self.path) IN
         IF p.ok THEN p
         ELSE Err("CppFunction is a class member but its path is not nested.")
    ELSE Err("not a member function")

\* CppFunction::is_constructor
is_constructor(self) ==
    IF is_some(self.member) THEN kind_is_constructor(self.member[1].kind) ELSE FALSE

\* Mutant of is_copy_constructor: the constness of the reference is not looked at.
is_copy_constructor_any_reference(self) ==
    IF ~is_constructor(self) THEN Returned(FALSE)
    ELSE IF Len(self.arguments) # 1 THEN Returned(FALSE)
    ELSE LET cp == class_path(self) IN
         IF ~cp.ok THEN Panicked
         ELSE Returned(\E c \in BOOLEAN :
                           new_reference(c, Class(cp.value))
                               = self.arguments[1].argument_type)

\* CppFunction::is_copy_constructor; class_path().unwrap() panics on Err.
is_copy_constructor(self) ==
    IF ~is_constructor(self) THEN Returned(FALSE)
    ELSE IF Len(self.arguments) # 1 THEN Returned(FALSE)
    ELSE LET cp == class_path(self) IN
         IF ~cp.ok THEN Panicked
         ELSE Returned(new_reference(TRUE, Class(cp.value))
                       = self.arguments[1].argument_type)

\* CppFunction::is_destructor
is_destructor(self) ==
    IF is_some(self.member) THEN kind_is_destructor(self.member[1].kind) ELSE FALSE

\* CppFunction::is_static_member
is_static_member(self) ==
    IF is_some(self.member) THEN self.member[1].is_static ELSE FALSE

\* CppFunction::is_virtual
is_virtual(self) ==
    IF is_some(self.member) THEN self.member[1].is_virtual ELSE FALSE

\* CppFunction::is_private
is_private(self) ==
    IF is_some(self.member) THEN self.member[1].visibility = "Private" ELSE FALSE

\* CppFunction::is_signal
is_signal(self) ==
    IF is_some(self.member) THEN self.member[1].is_signal ELSE FALSE

\* Mutant of is_slot: the field of the neighbouring predicate is read.
is_slot_reads_is_signal(self) ==
    IF is_some(self.member) THEN self.member[1].is_signal ELSE FALSE

\* CppFunction::is_slot
is_slot(self) ==
    IF is_some(self.member) THEN self.member[1].is_slot ELSE FALSE

\* CppFunction::patch_receiver_argument_type
patch_receiver_argument_type(type_text) ==
    str_replace(type_text, T_QListOfQModelIndex, T_QModelIndexList)

\* Mutant of receiver_id_from_data: the patch is applied once to the finished
\* string instead of to each argument spelling.
receiver_id_from_data_patches_whole(receiver_type, name, arguments) ==
    LET type_num == IF receiver_type = "Signal" THEN <<"2">> ELSE <<"1">>
        spelled == types_to_cpp_code(arguments)
    IN  IF ~spelled.ok THEN spelled
        ELSE Ok(patch_receiver_argument_type(
                    type_num \o name \o <<"(">> \o join(spelled.value, <<",">>) \o <<")">>))

\* CppFunction::receiver_id_from_data
receiver_id_from_data(receiver_type, name, arguments) ==
    LET type_num == IF receiver_type = "Signal" THEN <<"2">> ELSE <<"1">>
        spelled == types_to_cpp_code(arguments)
    IN  IF ~spelled.ok THEN spelled
        ELSE LET patched == [i \in 1..Len(spelled.value) |->
                                patch_receiver_argument_type(spelled.value[i])]
             IN  Ok(type_num \o name \o <<"(">> \o join(patched, <<",">>) \o <<")">>)

\* Mutant of receiver_id: is_signal is looked at before is_slot.
receiver_id_signal_first(self) ==
    IF is_some(self.member)
    THEN IF self.member[1].is_signal
         THEN receiver_id_from_data("Signal", last(self.path).name,
                  [i \in 1..Len(self.arguments) |-> self.arguments[i].argument_type])
         ELSE IF self.member[1].is_slot
         THEN receiver_id_from_data("Slot", last(self.path).name,
                  [i \in 1..Len(self.arguments) |-> self.arguments[i].argument_type])
         ELSE Err("not a signal or slot")
    ELSE Err("not a class method")

\* Mutant of receiver_id: a member that is neither signal nor slot is encoded as
\* a signal instead of being refused.
receiver_id_defaults_to_signal(self) ==
    IF is_some(self.member)
    THEN receiver_id_from_data(IF self.member[1].is_slot THEN "Slot" ELSE "Signal",
             last(self.path).name,
             [i \in 1..Len(self.arguments) |-> self.arguments[i].argument_type])
    ELSE Err("not a class method")

\* CppFunction::receiver_id
receiver_id(self) ==
    IF is_some(self.member)
    THEN IF self.member[1].is_slot
         THEN receiver_id_from_data("Slot", last(self.path).name,
                  [i \in 1..Len(self.arguments) |-> self.arguments[i].argument_type])
         ELSE IF self.member[1].is_signal
         THEN receiver_id_from_data("Signal", last(self.path).name,
                  [i \in 1..Len(self.arguments) |-> self.arguments[i].argument_type])
         ELSE Err("not a signal or slot")
    ELSE Err("not a class method")

\* Mutant of all_involved_types: the return type is pushed before the arguments.
all_involved_types_return_first(self) ==
    LET cp == class_path(self)
        args == [i \in 1..Len(self.arguments) |-> self.arguments[i].argument_type]
        targs == IF is_some(last(self.path).template_arguments)
                 THEN last(self.path).template_arguments[1]
                 ELSE <<>>
    IN  IF is_some(self.member) /\ ~cp.ok THEN Panicked
        ELSE Returned((IF is_some(self.member)
                       THEN <<PointerLike(self.member[1].is_const, "Pointer",
                                          Class(cp.value))>>
                       ELSE <<>>)
                      \o <<self.return_type>> \o args \o targs)

\* CppFunction::all_involved_types; class_path().unwrap() panics on Err.
all_involved_types(self) ==
    LET cp == class_path(self)
        args == [i \in 1..Len(self.arguments) |-> self.arguments[i].argument_type]
        targs == IF is_some(last(self.path).template_arguments)
                 THEN last(self.path).template_arguments[1]
                 ELSE <<>>
    IN  IF is_some(self.member) /\ ~cp.ok THEN Panicked
        ELSE Returned((IF is_some(self.member)
                       THEN <<PointerLike(self.member[1].is_const, "Pointer",
                                          Class(cp.value))>>
                       ELSE <<>>)
                      \o args \o <<self.return_type>> \o targs)

\* Mutant of can_infer_template_arguments: an occurrence in the return type counts.
can_infer_template_arguments_from_return(self) ==
    IF is_some(last(self.path).template_arguments)
    THEN LET args == last(self.path).template_arguments[1] IN
         \A k \in 1..Len(args) :
             args[k].tag = "TemplateParameter" =>
                 \/ contains_template_parameter(self.return_type, args[k])
                 \/ \E i \in 1..Len(self.arguments) :
                        contains_template_parameter(self.arguments[i].argument_type, args[k])
    ELSE TRUE

\* CppFunction::can_infer_template_arguments
can_infer_template_arguments(self) ==
    IF is_some(last(self.path).template_arguments)
    THEN LET args == last(self.path).template_arguments[1] IN
         \A k \in 1..Len(args) :
             args[k].tag = "TemplateParameter" =>
                 \E i \in 1..Len(self.arguments) :
                     contains_template_parameter(self.arguments[i].argument_type, args[k])
    ELSE TRUE

\* ------------------------------------------------- bounded input universe

ClassC == Class(<<Item(<<"C">>)>>)

ClassD == Class(<<Item(<<"D">>)>>)

\* QList<QModelIndex>, spelled "QList< QModelIndex >"
QListOfQModelIndex ==
    Class(<<PathItem(T_QList, Some(<<Class(<<Item(T_QModelIndex)>>)>>))>>)

\* QMap<int, QList<QModelIndex>>
QMapOfQList == Class(<<PathItem(T_QMap, Some(<<Int_, QListOfQModelIndex>>))>>)

\* QPair<QList<QModelIndex>, QList<QModelIndex>>
QPairOfQLists ==
    Class(<<PathItem(T_QPair, Some(<<QListOfQModelIndex, QListOfQModelIndex>>))>>)

TypeT == TemplateParameter(<<"T">>)

TypeU == TemplateParameter(<<"U">>)

\* Container<T>, here V<T>
ContainerOf(t) == Class(<<PathItem(<<"V">>, Some(<<t>>))>>)

\* The types an argument or a return value is drawn from.
ArgTypes ==
    { Int_, ClassC, new_reference(TRUE, ClassC), new_reference(FALSE, ClassC),
      new_pointer(TRUE, ClassC), new_reference(TRUE, ClassD), TypeT,
      new_reference(FALSE, ContainerOf(TypeT)), QListOfQModelIndex }

ReturnTypes == {Void, Int_, ClassC, TypeT}

Operators == {None, Some("Addition"), Some("Assignment")}

DefaultMember == CppFunctionMemberData("Regular", FALSE, FALSE)

\* int f(int a, C b)
FreeFunction ==
    CppFunction(<<Item(<<"f">>)>>, None, None, Int_,
                <<CppFunctionArgument(<<"a">>, Int_, FALSE),
                  CppFunctionArgument(<<"b">>, ClassC, FALSE)>>, FALSE)

\* int C::f(int a) const
ConstMethod ==
    CppFunction(<<Item(<<"C">>), Item(<<"f">>)>>,
                Some(CppFunctionMemberData("Regular", TRUE, FALSE)), None, Int_,
                <<CppFunctionArgument(<<"a">>, Int_, FALSE)>>, FALSE)

\* C::C(const C& a)
CopyConstructor ==
    CppFunction(<<Item(<<"C">>), Item(<<"C">>)>>,
                Some(CppFunctionMemberData("Constructor", FALSE, FALSE)), None, Void,
                <<CppFunctionArgument(<<"a">>, new_reference(TRUE, ClassC), FALSE)>>, FALSE)

\* public slot: void C::g(int a, QList<QModelIndex> b)
SlotMethod ==
    CppFunction(<<Item(<<"C">>), Item(<<"g">>)>>,
                Some([DefaultMember EXCEPT !.is_slot = TRUE]), None, Void,
                <<CppFunctionArgument(<<"a">>, Int_, FALSE),
                  CppFunctionArgument(<<"b">>, QListOfQModelIndex, TRUE)>>, FALSE)

\* template<T> void sort<T>(V<T>& a)
TemplateFunction ==
    CppFunction(<<PathItem(<<"s">>, Some(<<TypeT>>))>>, None, None, Void,
                <<CppFunctionArgument(<<"a">>,
                      new_reference(FALSE, ContainerOf(TypeT)), FALSE)>>, FALSE)

\* template<T> T C::find<T>()
TemplateMethod ==
    CppFunction(<<Item(<<"C">>), PathItem(<<"f">>, Some(<<TypeT>>))>>,
                Some(DefaultMember), None, TypeT, <<>>, FALSE)

Seeds ==
    {FreeFunction, ConstMethod, CopyConstructor, SlotMethod, TemplateFunction,
     TemplateMethod}

\* A path that differs from p in one respect: its nesting, its last name, or the
\* template arguments of its last segment.
PathVariants(p) ==
    LET l == last(p) IN
    { <<l>>, <<Item(<<"C">>), l>>, <<Item(<<"D">>), l>>,
      <<Item(<<"D">>), Item(<<"C">>), l>> }
    \cup { SubSeq(p, 1, Len(p) - 1) \o <<[l EXCEPT !.name = n]>> :
               n \in {<<"f">>, <<"g">>, <<"C">>} }
    \cup { SubSeq(p, 1, Len(p) - 1) \o <<[l EXCEPT !.template_arguments = ta]>> :
               ta \in {None, Some(<<TypeT>>), Some(<<Int_>>), Some(<<TypeU, TypeT>>),
                       Some(<<>>)} }

\* Member data that differs from m only in the fields is_same ignores.
Requalified(m) ==
    { [m EXCEPT !.is_virtual = v, !.visibility = vis, !.is_signal = sg, !.is_slot = sl] :
          v \in BOOLEAN, vis \in CppVisibility, sg \in BOOLEAN, sl \in BOOLEAN }

\* Member data that differs from the declaration's in one respect (or in the
\* fields is_same ignores); member data for a free function.
MemberVariants(member) ==
    IF is_some(member)
    THEN LET m == member[1] IN
         {None}
         \cup { Some(x) : x \in Requalified(m) }
         \cup { Some([m EXCEPT !.kind = k]) : k \in CppFunctionKind }
         \cup { Some([m EXCEPT !.is_const = ~m.is_const]),
                Some([m EXCEPT !.is_static = ~m.is_static]),
                Some([m EXCEPT !.is_virtual = TRUE, !.is_pure_virtual = TRUE]) }
    ELSE { Some(CppFunctionMemberData(k, c, FALSE)) :
               k \in CppFunctionKind, c \in BOOLEAN }

\* Argument lists that differ from args in one respect: one type, one name, one
\* default-value flag, one argument more or one argument less.
ArgumentsVariants(args) ==
    { [args EXCEPT ![i].argument_type = t] : i \in 1..Len(args), t \in ArgTypes }
    \cup { [args EXCEPT ![i].name = <<"x">>] : i \in 1..Len(args) }
    \cup { [args EXCEPT ![i].has_default_value = ~args[i].has_default_value] :
               i \in 1..Len(args) }
    \cup { Append(args, CppFunctionArgument(<<"z">>, t, FALSE)) : t \in ArgTypes }
    \cup { SubSeq(args, 1, Len(args) - 1) : i \in 1..Len(args) }

\* The declarations that differ from d in at most one field.
Variants(d) ==
    {d}
    \cup { [d EXCEPT !.path = p] : p \in PathVariants(d.path) }
    \cup { [d EXCEPT !.member = m] : m \in MemberVariants(d.member) }
    \cup { [d EXCEPT !.operator = o] : o \in Operators }
    \cup { [d EXCEPT !.return_type = t] : t \in ReturnTypes }
    \cup { [d EXCEPT !.arguments = a] : a \in ArgumentsVariants(d.arguments) }
    \cup { [d EXCEPT !.allows_variadic_arguments = ~d.allows_variadic_arguments],
           [d EXCEPT !.cast = Some("Static")],
           [d EXCEPT !.declaration_code = Some(<<"c">>)] }

\* A few redeclarations of d: itself, requalified, renamed arguments, and changed
\* in one compared field.
Near(d) ==
    {d}
    \cup (IF is_some(d.member)
          THEN { [d EXCEPT !.member = Some([d.member[1] EXCEPT !.is_virtual = ~@])],
                 [d EXCEPT !.member = Some([d.member[1] EXCEPT !.is_const = ~@])],
                 [d EXCEPT !.member = Some([d.member[1] EXCEPT !.is_static = ~@])] }
          ELSE {})
    \cup { [d EXCEPT !.arguments = [i \in 1..Len(d.arguments) |->
                                      [d.arguments[i] EXCEPT !.name = <<"y">>]]],
           [d EXCEPT !.return_type = IF @ = Void THEN Int_ ELSE Void],
           [d EXCEPT !.allows_variadic_arguments = ~@],
           [d EXCEPT !.path = <<last(@)>>] }

\* The declarations the single-declaration queries are applied to.
Functions == UNION { Near(v) : v \in UNION { Variants(d) : d \in Seeds } }

ReceiverTypes == {"Signal", "Slot"}

ReceiverNames == {<<"f">>, T_valueChanged, T_QListOfQModelIndex}

ReceiverArgTypes ==
    { Int_, QListOfQModelIndex, QMapOfQList, QPairOfQLists,
      new_reference(TRUE, QListOfQModelIndex), TypeT }

\* All lists over S of length at most n.
SeqsUpTo(S, n) == UNION { [1..k -> S] : k \in 0..n }

\* ------------------------------------------------------------ state machine

VARIABLES f, g, h, data, op, res, handles, released

vars == <<f, g, h, data, op, res, handles, released>>

\* The receiver data when the receiver encoder is not under test.
NoData == [receiver_type |-> "Slot", name |-> <<"f">>, arguments |-> <<>>]

\* Equivalence harness: a declaration, a variant of it and a third declaration.
InitEq ==
    /\ f \in Seeds
    /\ g \in Variants(f)
    /\ h \in Near(g) \cup Seeds
    /\ data = NoData
    /\ op = "init"
    /\ res = None
    /\ handles = <<>>
    /\ released = <<>>

\* Query harness: one declaration.
InitQuery ==
    /\ f \in Functions
    /\ g = f
    /\ h = f
    /\ data = NoData
    /\ op = "init"
    /\ res = None
    /\ handles = <<>>
    /\ released = <<>>

\* Encoder harness: a receiver kind, a name and a list of argument types.
InitRecv ==
    /\ f = FreeFunction
    /\ g = f
    /\ h = f
    /\ data \in [receiver_type : ReceiverTypes, name : ReceiverNames,
                 arguments : SeqsUpTo(ReceiverArgTypes, MaxArgs)]
    /\ op = "init"
    /\ res = None
    /\ handles = <<>>
    /\ released = <<>>

Decl(n) == CASE n = "f" -> f [] n = "g" -> g [] OTHER -> h

DeclNames == {"f", "g", "h"}

\* Every operation is pure: it leaves its inputs alone and its outcome is put in res.

\* argument_types_equal on every ordered pair of the three declarations.
ArgumentTypesEqual ==
    /\ op' = "argument_types_equal"
    /\ res' = [p \in DeclNames \X DeclNames |->
                  argument_types_equal(Decl(p[1]), Decl(p[2]))]
    /\ UNCHANGED <<f, g, h, data, handles, released>>

\* is_same on every ordered pair of the three declarations.
IsSame ==
    /\ op' = "is_same"
    /\ res' = [p \in DeclNames \X DeclNames |-> is_same(Decl(p[1]), Decl(p[2]))]
    /\ UNCHANGED <<f, g, h, data, handles, released>>

\* class_path on f.
ClassPath ==
    /\ op' = "class_path"
    /\ res' = Returned(class_path(f))
    /\ UNCHANGED <<f, g, h, data, handles, released>>

\* class_path_parts on f.
ClassPathParts ==
    /\ op' = "class_path_parts"
    /\ res' = Returned(class_path_parts(f))
    /\ UNCHANGED <<f, g, h, data, handles, released>>

\* is_constructor on f.
IsConstructor ==
    /\ op' = "is_constructor"
    /\ res' = Returned(is_constructor(f))
    /\ UNCHANGED <<f, g, h, data, handles, released>>

\* is_copy_constructor on f.
IsCopyConstructor ==
    /\ op' = "is_copy_constructor"
    /\ res' = is_copy_constructor(f)
    /\ UNCHANGED <<f, g, h, data, handles, released>>

\* is_destructor on f.
IsDestructor ==
    /\ op' = "is_destructor"
    /\ res' = Returned(is_destructor(f))
    /\ UNCHANGED <<f, g, h, data, handles, released>>

\* is_static_member on f.
IsStaticMember ==
    /\ op' = "is_static_member"
    /\ res' = Returned(is_static_member(f))
    /\ UNCHANGED <<f, g, h, data, handles, released>>

\* is_virtual on f.
IsVirtual ==
    /\ op' = "is_virtual"
    /\ res' = Returned(is_virtual(f))
    /\ UNCHANGED <<f, g, h, data, handles, released>>

\* is_private on f.
IsPrivate ==
    /\ op' = "is_private"
    /\ res' = Returned(is_private(f))
    /\ UNCHANGED <<f, g, h, data, handles, released>>

\* is_signal on f.
IsSignal ==
    /\ op' = "is_signal"
    /\ res' = Returned(is_signal(f))
    /\ UNCHANGED <<f, g, h, data, handles, released>>

\* is_slot on f.
IsSlot ==
    /\ op' = "is_slot"
    /\ res' = Returned(is_slot(f))
    /\ UNCHANGED <<f, g, h, data, handles, released>>

\* receiver_id on f.
ReceiverId ==
    /\ op' = "receiver_id"
    /\ res' = Returned(receiver_id(f))
    /\ UNCHANGED <<f, g, h, data, handles, released>>

\* all_involved_types on f.
AllInvolvedTypes ==
    /\ op' = "all_involved_types"
    /\ res' = all_involved_types(f)
    /\ UNCHANGED <<f, g, h, data, handles, released>>

\* can_infer_template_arguments on f.
CanInferTemplateArguments ==
    /\ op' = "can_infer_template_arguments"
    /\ res' = Returned(can_infer_template_arguments(f))
    /\ UNCHANGED <<f, g, h, data, handles, released>>

\* receiver_id_from_data on the drawn receiver data.
ReceiverIdFromData ==
    /\ op' = "receiver_id_from_data"
    /\ res' = Returned(receiver_id_from_data(data.receiver_type, data.name,
                                       data.arguments))
    /\ UNCHANGED <<f, g, h, data, handles, released>>

NextEq == ArgumentTypesEqual \/ IsSame

NextQuery ==
    \/ ClassPath
    \/ ClassPathParts
    \/ IsConstructor
    \/ IsCopyConstructor
    \/ IsDestructor
    \/ IsStaticMember
    \/ IsVirtual
    \/ IsPrivate
    \/ IsSignal
    \/ IsSlot
    \/ ReceiverId
    \/ AllInvolvedTypes
    \/ CanInferTemplateArguments

NextRecv == ReceiverIdFromData

SpecEq == InitEq /\ [][NextEq]_vars

SpecQuery == InitQuery /\ [][NextQuery]_vars

SpecRecv == InitRecv /\ [][NextRecv]_vars

\* ------------------------------------------------------------------ claims

Pairs == DeclNames \X DeclNames

\* The argument types of a declaration, in order.
ArgumentTypesOf(d) == [i \in 1..Len(d.arguments) |-> d.arguments[i].argument_type]

\* Same argument count, same variadic flag, same types position by position.
SameArgumentTypes(a, b) ==
    /\ Len(a.arguments) = Len(b.arguments)
    /\ a.allows_variadic_arguments = b.allows_variadic_arguments
    /\ ArgumentTypesOf(a) = ArgumentTypesOf(b)

\* Both without member data, or both with it and agreeing on kind, is_const, is_static.
MemberEquivalent(a, b) ==
    \/ a.member = None /\ b.member = None
    \/ /\ a.member # None
       /\ b.member # None
       /\ a.member[1].kind = b.member[1].kind
       /\ a.member[1].is_const = b.member[1].is_const
       /\ a.member[1].is_static = b.member[1].is_static

\* b is a member declaration equal to member declaration a except possibly in
\* is_virtual, visibility, is_signal and is_slot.
DiffersOnlyInQualifiers(a, b) ==
    /\ a.member # None
    /\ b.member # None
    /\ b = [a EXCEPT !.member =
                Some([a.member[1] EXCEPT !.is_virtual = b.member[1].is_virtual,
                                         !.visibility = b.member[1].visibility,
                                         !.is_signal = b.member[1].is_signal,
                                         !.is_slot = b.member[1].is_slot])]

\* d with its argument names and default-value flags erased.
WithoutNamesAndDefaults(d) ==
    [d EXCEPT !.arguments =
        [i \in 1..Len(d.arguments) |->
            [d.arguments[i] EXCEPT !.name = <<>>, !.has_default_value = FALSE]]]

\* C1: is_same(a, b) is true exactly when the paths are equal, the member data
\* is equivalent (both absent, or both present and agreeing on kind, is_const
\* and is_static), the operators are equal, the return types are equal and the
\* argument types are equal; a declaration with member data and one without
\* are never the same.
C1_IsSameIff ==
    op = "is_same" =>
        \A p \in Pairs :
            LET a == Decl(p[1])
                b == Decl(p[2])
            IN  /\ res[p] = ( /\ a.path = b.path
                              /\ MemberEquivalent(a, b)
                              /\ a.operator = b.operator
                              /\ a.return_type = b.return_type
                              /\ SameArgumentTypes(a, b) )
                /\ (a.member = None) # (b.member = None) => ~res[p]

\* C1 witness: is_same has been applied; g is another declaration than f with a
\* different is_virtual yet the same, and h differs from f in is_const and is not.
C1_Witness ==
    /\ op = "is_same"
    /\ f.member # None
    /\ g.member # None
    /\ h.member # None
    /\ g.member[1].is_virtual # f.member[1].is_virtual
    /\ h.member[1].is_const # f.member[1].is_const
    /\ res[<<"f", "g">>]
    /\ ~res[<<"f", "h">>]

\* C2: is_same is insensitive to is_virtual, visibility, is_signal and is_slot:
\* two member declarations that differ only in those fields are the same, and
\* is_same relates them to any third declaration alike.
C2_IsSameIgnoresQualifiers ==
    op = "is_same" =>
        \A p \in Pairs :
            DiffersOnlyInQualifiers(Decl(p[1]), Decl(p[2])) =>
                /\ res[p]
                /\ \A c \in DeclNames :
                       /\ res[<<p[1], c>>] = res[<<p[2], c>>]
                       /\ res[<<c, p[1]>>] = res[<<c, p[2]>>]

\* C2 witness: f and g differ in all four ignored fields and in nothing else, and
\* the third declaration h is the same as neither.
C2_Witness ==
    /\ op = "is_same"
    /\ DiffersOnlyInQualifiers(f, g)
    /\ f.member[1].is_virtual # g.member[1].is_virtual
    /\ f.member[1].visibility # g.member[1].visibility
    /\ f.member[1].is_signal # g.member[1].is_signal
    /\ f.member[1].is_slot # g.member[1].is_slot
    /\ res[<<"f", "g">>]
    /\ ~res[<<"g", "h">>]
    /\ ~res[<<"f", "h">>]

\* C3: argument_types_equal(a, b) is true exactly when the argument counts are
\* equal, the variadic flags are equal and the argument types are equal position
\* by position; changing only argument names or default-value flags of either
\* declaration leaves the result unchanged.
C3_ArgumentTypesEqualIff ==
    op = "argument_types_equal" =>
        \A p \in Pairs :
            LET a == Decl(p[1])
                b == Decl(p[2])
            IN  /\ res[p] = ( /\ Len(a.arguments) = Len(b.arguments)
                              /\ a.allows_variadic_arguments = b.allows_variadic_arguments
                              /\ \A i \in 1..Len(a.arguments) :
                                     i <= Len(b.arguments) =>
                                         a.arguments[i].argument_type
                                             = b.arguments[i].argument_type )
                /\ \A c \in DeclNames :
                       WithoutNamesAndDefaults(Decl(c)) = WithoutNamesAndDefaults(b) =>
                           /\ res[<<p[1], c>>] = res[p]
                           /\ res[<<c, p[1]>>] = res[<<p[2], p[1]>>]

\* C3 witness: g is f with a default-value flag changed and h is g with its
\* arguments renamed; all three have equal argument types.
C3_Witness ==
    /\ op = "argument_types_equal"
    /\ Len(f.arguments) = 2
    /\ Len(g.arguments) = 2
    /\ g.arguments[2].has_default_value # f.arguments[2].has_default_value
    /\ h.arguments # g.arguments
    /\ h.arguments[1].name # g.arguments[1].name
    /\ WithoutNamesAndDefaults(h) = WithoutNamesAndDefaults(f)
    /\ res[<<"f", "g">>]
    /\ res[<<"f", "h">>]

\* C4: argument_types_equal and is_same are reflexive and symmetric.
C4_ReflexiveSymmetric ==
    op \in {"argument_types_equal", "is_same"} =>
        /\ \A a \in DeclNames : res[<<a, a>>]
        /\ \A p \in Pairs : res[p] = res[<<p[2], p[1]>>]

\* C4 witness: is_same has been applied to two different declarations, one a
\* free function, and found them different in both directions.
C4_Witness ==
    /\ op = "is_same"
    /\ f.member = None
    /\ g.member # None
    /\ g = [f EXCEPT !.member = g.member]
    /\ res[<<"f", "f">>]
    /\ res[<<"g", "g">>]
    /\ ~res[<<"f", "g">>]
    /\ ~res[<<"g", "f">>]

\* The member-only predicates and, for each, what it reads from member data m.
MemberField(name, m) ==
    CASE name = "is_constructor" -> m.kind = "Constructor"
      [] name = "is_destructor" -> m.kind = "Destructor"
      [] name = "is_static_member" -> m.is_static
      [] name = "is_virtual" -> m.is_virtual
      [] name = "is_private" -> m.visibility = "Private"
      [] name = "is_signal" -> m.is_signal
      [] name = "is_slot" -> m.is_slot

MemberPredicates ==
    {"is_constructor", "is_destructor", "is_static_member", "is_virtual",
     "is_private", "is_signal", "is_slot"}

\* C5: for a free function (member absent) is_constructor, is_destructor,
\* is_static_member, is_virtual, is_private, is_signal, is_slot and
\* is_copy_constructor all return false; with member data present each of the
\* seven predicates returns exactly its member field (is_private: visibility
\* is Private).
C5_MemberPredicates ==
    /\ op \in MemberPredicates =>
           res = Returned(IF f.member = None THEN FALSE
                          ELSE MemberField(op, f.member[1]))
    /\ op = "is_copy_constructor" /\ f.member = None => res = Returned(FALSE)

\* C5 witness: is_private has been asked of a private member and answered true.
C5_Witness ==
    /\ op = "is_private"
    /\ f.member # None
    /\ f.member[1].visibility = "Private"
    /\ ~f.member[1].is_virtual
    /\ res = Returned(TRUE)

\* The const reference to the class that owns member declaration d.
ConstRefToOwningClass(d) ==
    [tag |-> "PointerLike", is_const |-> TRUE, kind |-> "Reference",
     target |-> [tag |-> "Class", path |-> SubSeq(d.path, 1, Len(d.path) - 1)]]

\* d has an owning class: its path nests under a class path.
HasOwningClass(d) == Len(d.path) > 1

\* C6: is_copy_constructor(f) is true exactly when f is a constructor with
\* exactly one argument whose type is the const reference to the class at
\* path.parent(); it is false for any other arity, and for a constructor of a
\* class for any other argument type (a non-const reference, a pointer or a
\* value of the owning class, a const reference to another class).
C6_IsCopyConstructorIff ==
    op = "is_copy_constructor" =>
        LET ctor == f.member # None /\ f.member[1].kind = "Constructor"
            copy == /\ ctor
                    /\ Len(f.arguments) = 1
                    /\ HasOwningClass(f)
                    /\ f.arguments[1].argument_type = ConstRefToOwningClass(f)
        IN  /\ (res = Returned(TRUE)) = copy
            /\ ~ctor \/ Len(f.arguments) # 1 \/ HasOwningClass(f) =>
                   res = Returned(copy)

\* C6 witness: a one-argument constructor of C taking a const reference to
\* another class D has been asked and answered false.
C6_Witness ==
    /\ op = "is_copy_constructor"
    /\ f.member # None
    /\ f.member[1].kind = "Constructor"
    /\ f.path = <<Item(<<"C">>), Item(<<"C">>)>>
    /\ Len(f.arguments) = 1
    /\ f.arguments[1].argument_type = new_reference(TRUE, ClassD)
    /\ res = Returned(FALSE)

\* C7: all_involved_types(f) is, in this order: for a member (static or not) a
\* pointer to the owning class with the method's constness, then the argument
\* types in argument order, then the return type, then the template arguments
\* of the last path segment, if any.
C7_AllInvolvedTypesOrder ==
    op = "all_involved_types" /\ (f.member # None => HasOwningClass(f)) =>
        LET m == IF f.member # None THEN 1 ELSE 0
            n == Len(f.arguments)
            ta == last(f.path).template_arguments
            k == IF ta # None THEN Len(ta[1]) ELSE 0
        IN  /\ res.outcome = "returned"
            /\ Len(res.value) = m + n + 1 + k
            /\ m = 1 =>
                   res.value[1] =
                       [tag |-> "PointerLike", is_const |-> f.member[1].is_const,
                        kind |-> "Pointer",
                        target |-> [tag |-> "Class",
                                    path |-> SubSeq(f.path, 1, Len(f.path) - 1)]]
            /\ \A i \in 1..n : res.value[m + i] = f.arguments[i].argument_type
            /\ res.value[m + n + 1] = f.return_type
            /\ \A j \in 1..k : res.value[m + n + 1 + j] = ta[1][j]
            /\ f = FreeFunction => res.value = <<Int_, ClassC, Int_>>
            /\ f = ConstMethod => res.value = <<new_pointer(TRUE, ClassC), Int_, Int_>>

\* C7 witness: a static const member of C with one argument and a template
\* argument has been asked; the receiver pointer comes first, the template
\* argument last.
C7_Witness ==
    /\ op = "all_involved_types"
    /\ f.member # None
    /\ f.member[1].is_static
    /\ f.member[1].is_const
    /\ Len(f.arguments) = 1
    /\ f.return_type = Int_
    /\ last(f.path).template_arguments = Some(<<TypeU, TypeT>>)
    /\ res = Returned(<<new_pointer(TRUE, ClassC), Int_, Int_, TypeU, TypeT>>)

RECURSIVE SubTerms(_)
\* The types that occur in t: t itself, a pointer's or reference's target, and
\* the template arguments of a class's path, recursively.
SubTerms(t) ==
    {t} \cup
    (IF t.tag = "PointerLike" THEN SubTerms(t.target)
     ELSE IF t.tag = "Class"
     THEN UNION { UNION { SubTerms(t.path[i].template_arguments[1][j]) :
                              j \in 1..Len(t.path[i].template_arguments[1]) } :
                      i \in { x \in 1..Len(t.path) : t.path[x].template_arguments # None } }
     ELSE {})

\* The template arguments of d's last path segment (none: the empty list).
TemplateArgumentsOf(d) ==
    IF last(d.path).template_arguments = None THEN <<>>
    ELSE last(d.path).template_arguments[1]

\* C8: can_infer_template_arguments(f) is true exactly when every template
\* argument of the last path segment that is a TemplateParameter occurs as a
\* sub-term of the type of some regular argument; the return type does not
\* count, instantiated template arguments impose nothing, and a declaration
\* without template arguments yields true.
C8_CanInferIff ==
    op = "can_infer_template_arguments" =>
        LET ta == TemplateArgumentsOf(f) IN
        /\ res = Returned(\A k \in 1..Len(ta) :
                              ta[k].tag = "TemplateParameter" =>
                                  \E i \in 1..Len(f.arguments) :
                                      ta[k] \in SubTerms(f.arguments[i].argument_type))
        /\ last(f.path).template_arguments = None => res = Returned(TRUE)
        /\ (\A k \in 1..Len(ta) : ta[k].tag # "TemplateParameter") => res = Returned(TRUE)
        /\ f = TemplateFunction => res = Returned(TRUE)
        /\ f = TemplateMethod => res = Returned(FALSE)

\* C8 witness: T find<T>(int) has been asked: T occurs in the return type and
\* in no argument, and the answer is false.
C8_Witness ==
    /\ op = "can_infer_template_arguments"
    /\ TemplateArgumentsOf(f) = <<TypeT>>
    /\ f.return_type = TypeT
    /\ Len(f.arguments) = 1
    /\ f.arguments[1].argument_type = Int_
    /\ res = Returned(FALSE)

\* C10: receiver_id(f) fails when member is absent and when member is present
\* with neither is_signal nor is_slot set, returning no string; it does not
\* fail for that reason when is_signal or is_slot is set.
C10_ReceiverIdRefusesNonReceivers ==
    op = "receiver_id" =>
        LET refusals == {"not a class method", "not a signal or slot"} IN
        /\ res.outcome = "returned"
        /\ f.member = None => res.value = [ok |-> FALSE, error |-> "not a class method"]
        /\ f.member # None /\ ~f.member[1].is_signal /\ ~f.member[1].is_slot =>
               res.value = [ok |-> FALSE, error |-> "not a signal or slot"]
        /\ f.member # None /\ (f.member[1].is_signal \/ f.member[1].is_slot) =>
               res.value.ok \/ res.value.error \notin refusals

\* C10 witness: a plain regular const method has been asked for its receiver id
\* and refused.
C10_Witness ==
    /\ op = "receiver_id"
    /\ f = ConstMethod
    /\ ~res.value.ok

\* The places in text s where "QList< QModelIndex >" starts.
Occurrences(s) ==
    { i \in 1..Len(s) :
          /\ i + Len(T_QListOfQModelIndex) - 1 <= Len(s)
          /\ SubSeq(s, i, i + Len(T_QListOfQModelIndex) - 1) = T_QListOfQModelIndex }

\* How much shorter one replaced occurrence makes a text.
Shrink == Len(T_QListOfQModelIndex) - Len(T_QModelIndexList)

\* t is s with every occurrence of "QList< QModelIndex >" replaced by
\* "QModelIndexList" and every other character kept, in order.
IsPatched(s, t) ==
    LET occ == Occurrences(s)
        before(j) == Cardinality({ i \in occ : i < j })
        covered(j) == \E i \in occ : i <= j /\ j < i + Len(T_QListOfQModelIndex)
    IN  /\ Len(t) = Len(s) - Shrink * Cardinality(occ)
        /\ \A j \in 1..Len(s) : ~covered(j) => t[j - Shrink * before(j)] = s[j]
        /\ \A i \in occ :
               SubSeq(t, i - Shrink * before(i),
                      i - Shrink * before(i) + Len(T_QModelIndexList) - 1)
                   = T_QModelIndexList

\* The length of spelling s once patched.
PatchedLen(s) == Len(s) - Shrink * Cardinality(Occurrences(s))

RECURSIVE PatchedLenSum(_, _)
\* The summed patched lengths of the first n spellings, each followed by a comma.
PatchedLenSum(spellings, n) ==
    IF n = 0 THEN 0
    ELSE PatchedLenSum(spellings, n - 1) + PatchedLen(spellings[n]) + 1

\* "1valueChanged(int,QModelIndexList)"
T_Example ==
    <<"1">> \o T_valueChanged \o <<"(", "i", "n", "t", ",">> \o T_QModelIndexList \o <<")">>

\* C9: receiver_id_from_data(kind, name, argument_types) is the marker "2"
\* (Signal) or "1" (Slot), then the name unchanged, then "(", then the argument
\* spellings in order, each with every "QList< QModelIndex >" replaced by
\* "QModelIndexList", separated by "," alone, then ")"; an empty list gives "()".
C9_ReceiverIdFormat ==
    op = "receiver_id_from_data" /\ types_to_cpp_code(data.arguments).ok =>
        LET sp == types_to_cpp_code(data.arguments).value
            n == Len(sp)
            r == res.value.value
            open == 2 + Len(data.name)
            start(i) == open + PatchedLenSum(sp, i - 1)
        IN  /\ res.outcome = "returned"
            /\ res.value.ok
            /\ Len(r) = open + (IF n = 0 THEN 0 ELSE PatchedLenSum(sp, n) - 1) + 1
            /\ r[1] = (IF data.receiver_type = "Signal" THEN "2" ELSE "1")
            /\ SubSeq(r, 2, 1 + Len(data.name)) = data.name
            /\ r[open] = "("
            /\ r[Len(r)] = ")"
            /\ \A i \in 1..n :
                   /\ IsPatched(sp[i], SubSeq(r, start(i) + 1, start(i) + PatchedLen(sp[i])))
                   /\ i < n => r[start(i) + PatchedLen(sp[i]) + 1] = ","
            /\ n = 0 => r = <<r[1]>> \o data.name \o <<"(", ")">>
            /\ data = [receiver_type |-> "Slot", name |-> T_valueChanged,
                       arguments |-> <<Int_, QListOfQModelIndex>>] => r = T_Example

\* C9 witness: a signal whose name holds the text "QList< QModelIndex >" and
\* whose arguments are a QMap<int, QList<QModelIndex>> and an int has been
\* encoded: the name is kept and the argument is patched.
C9_Witness ==
    /\ op = "receiver_id_from_data"
    /\ data = [receiver_type |-> "Signal", name |-> T_QListOfQModelIndex,
               arguments |-> <<QMapOfQList, Int_>>]
    /\ res = Returned(Ok(<<"2">> \o T_QListOfQModelIndex \o <<"(">> \o T_QMap
                         \o <<"<", " ", "i", "n", "t", ",", " ">> \o T_QModelIndexList
                         \o <<" ", ">", ",", "i", "n", "t", ")">>))

\* What receiver_id may read: the two receiver flags, the last path segment's
\* name and the argument types.
ReceiverView(d) ==
    [is_signal |-> d.member[1].is_signal, is_slot |-> d.member[1].is_slot,
     name |-> d.path[Len(d.path)].name, types |-> ArgumentTypesOf(d)]

\* The receiver id of a view: a slot's when is_slot is set, else a signal's.
ReceiverIdOfView(v) ==
    receiver_id_from_data(IF v.is_slot THEN "Slot" ELSE "Signal", v.name, v.types)

\* C11: for a member with is_slot or is_signal set, receiver_id(f) is
\* receiver_id_from_data(kind, last path segment name, argument types in
\* order) with kind Slot whenever is_slot is set (also when is_signal is set
\* too) and Signal only when is_signal is set alone; return type, constness,
\* class path and argument names play no part.
C11_ReceiverIdDelegates ==
    op = "receiver_id" /\ f.member # None
        /\ (f.member[1].is_signal \/ f.member[1].is_slot) =>
        /\ res = Returned(ReceiverIdOfView(ReceiverView(f)))
        /\ res.value.ok =>
               res.value.value[1] = (IF f.member[1].is_slot THEN "1" ELSE "2")
        /\ \A d \in Seeds :
               d.member # None /\ ReceiverView(d) = ReceiverView(f) =>
                   res = Returned(receiver_id(d))

\* C11 witness: a const member returning int, marked both signal and slot, has
\* been asked for its receiver id and got the slot marker.
C11_Witness ==
    /\ op = "receiver_id"
    /\ f.member # None
    /\ f.member[1].is_signal
    /\ f.member[1].is_slot
    /\ f.member[1].is_const
    /\ f.return_type = Int_
    /\ res = Returned(Ok(<<"1", "f", "(", "i", "n", "t", ")">>))

\* C12: class_path(f) and class_path_parts(f) fail when member is absent,
\* however many segments the path has; fail when member is present and the
\* path has a single segment; and otherwise return all path segments but the
\* last, unchanged and in order.
C12_ClassPath ==
    op \in {"class_path", "class_path_parts"} =>
        /\ res.outcome = "returned"
        /\ f.member = None =>
               res.value = [ok |-> FALSE, error |-> "not a member function"]
        /\ f.member # None /\ Len(f.path) = 1 => ~res.value.ok
        /\ f.member # None /\ Len(f.path) > 1 =>
               /\ res.value.ok
               /\ Len(res.value.value) = Len(f.path) - 1
               /\ \A i \in 1..(Len(f.path) - 1) : res.value.value[i] = f.path[i]

\* C12 witness: a free function whose path has two segments has been asked for
\* its class path and refused.
C12_Witness ==
    /\ op = "class_path"
    /\ f.member = None
    /\ Len(f.path) = 2
    /\ ~res.value.ok

\* C13 (as claimed): every query that needs the owning class returns a value
\* or an error value to its caller, also for a member whose path has a single
\* segment; none aborts.
C13_NeverFatal ==
    op \in {"class_path", "class_path_parts", "is_copy_constructor",
            "all_involved_types"} =>
        res.outcome = "returned"

\* C17: is_same and argument_types_equal are transitive, and declarations that
\* are the same have equal argument types.
C17_Transitive ==
    /\ op \in {"argument_types_equal", "is_same"} =>
           \A a \in DeclNames, b \in DeclNames, c \in DeclNames :
               res[<<a, b>>] /\ res[<<b, c>>] => res[<<a, c>>]
    /\ op = "is_same" =>
           \A p \in Pairs : res[p] => argument_types_equal(Decl(p[1]), Decl(p[2]))

\* C17 witness: argument_types_equal has been applied to three declarations
\* that are pairwise different; f and g have equal argument types, g and h
\* have equal argument types, and so have f and h.
C17_Witness ==
    /\ op = "argument_types_equal"
    /\ f # g
    /\ g # h
    /\ f # h
    /\ f.path # g.path
    /\ ArgumentTypesOf(f) # <<>>
    /\ h.arguments # g.arguments
    /\ res[<<"f", "g">>]
    /\ res[<<"g", "h">>]
    /\ res[<<"f", "h">>]

\* d with every field is_same does not compare erased: cast, declaration_code,
\* argument names and default-value flags, and of the member data all but
\* kind, is_const and is_static.
ComparedPart(d) ==
    [path |-> d.path,
     member |-> IF d.member = None THEN <<>>
                ELSE <<d.member[1].kind, d.member[1].is_const, d.member[1].is_static>>,
     operator |-> d.operator,
     return_type |-> d.return_type,
     types |-> ArgumentTypesOf(d),
     variadic |-> d.allows_variadic_arguments]

\* C18: is_same is coarser than equality of all fields: equal declarations are
\* the same, and so are declarations that differ only in cast,
\* declaration_code, is_pure_virtual, argument names or default-value flags;
\* only path, member kind / is_const / is_static, operator, return type,
\* argument types and the variadic flag can make is_same false.
C18_CoarserThanEquality ==
    op = "is_same" =>
        \A p \in Pairs :
            LET a == Decl(p[1])
                b == Decl(p[2])
            IN  /\ a = b => res[p]
                /\ ComparedPart(a) = ComparedPart(b) => res[p]
                /\ ~res[p] => \E k \in DOMAIN ComparedPart(a) :
                                  ComparedPart(a)[k] # ComparedPart(b)[k]

\* C18 witness: g is f with a pure-virtual flag, h is g with its arguments
\* renamed; they are three different declarations and all the same.
C18_Witness ==
    /\ op = "is_same"
    /\ f.member # None
    /\ g.member # None
    /\ g.member[1].is_pure_virtual # f.member[1].is_pure_virtual
    /\ h.arguments # g.arguments
    /\ f # h
    /\ res[<<"f", "g">>]
    /\ res[<<"g", "h">>]
    /\ res[<<"f", "h">>]

\* ------------------------------------------------- documentation formatter
\* src/ritual/src/doc_formatter.rs.  A text is a sequence of pieces: the html
\* of a documentation item is spelled character by character, a fixed
\* sentence of the formatter is one piece.

\* The number of fragments an html text under test is assembled from.
MaxPieces == 3

\* The backquote character, which a TLA+ string cannot hold, as a piece.
BQ == "{backquote}"

\* wrap_inline_cpp_code
wrap_inline_cpp_code(code) ==
    <<"<span style='color: green;'>", BQ, BQ, BQ>> \o code \o <<BQ, BQ, BQ, "</span>">>

\* wrap_cpp_doc_block
wrap_cpp_doc_block(html) ==
    <<"<div style='border: 1px solid #5CFF95; background: #D6FFE4; padding: 16px;'>">>
        \o html \o <<"</div>">>

T_p_close == <<"<", "/", "p", ">">>

T_dot == <<".">>

\* str::find: the 0-based index of the first occurrence of pattern, if any.
find(s, pattern) ==
    LET hits == { i \in 0..(Len(s) - Len(pattern)) :
                      SubSeq(s, i + 1, i + Len(pattern)) = pattern }
    IN  IF hits = {} THEN None
        ELSE Some(CHOOSE i \in hits : \A j \in hits : i <= j)

\* Mutant of first_phrase: the first '.' is looked for before "</p>".
first_phrase_dot_first(html) ==
    IF find(html, T_dot) # None
    THEN SubSeq(html, 1, find(html, T_dot)[1] + 1)
    ELSE IF find(html, T_p_close) # None
    THEN SubSeq(html, 1, find(html, T_p_close)[1] + Len(T_p_close))
    ELSE html

\* first_phrase
first_phrase(html) ==
    IF find(html, T_p_close) # None
    THEN SubSeq(html, 1, find(html, T_p_close)[1] + Len(T_p_close))
    ELSE IF find(html, T_dot) # None
    THEN SubSeq(html, 1, find(html, T_dot)[1] + 1)
    ELSE html

\* format_maybe_link
format_maybe_link(url, text) ==
    IF url # None THEN <<"<a href=\"">> \o url[1] \o <<"\">">> \o text \o <<"</a>">>
    ELSE text

\* format_doc_item
format_doc_item(cpp_doc) ==
    (IF cpp_doc.mismatched_declaration # None
     THEN <<"Warning: no exact match found in C++ documentation. Below is the ">>
              \o format_maybe_link(cpp_doc.url, <<"C++ documentation">>)
              \o <<" for ">>
              \o wrap_inline_cpp_code(cpp_doc.mismatched_declaration[1])
              \o <<":">>
     ELSE format_maybe_link(cpp_doc.url, <<"C++ documentation">>) \o <<":">>)
        \o wrap_cpp_doc_block(cpp_doc.html)

\* The opening of struct_doc and of function_doc: the first phrase of the
\* item's documentation and an empty line, when there is documentation and its
\* html is not empty.
doc_first_phrase(doc_item) ==
    IF doc_item # None /\ doc_item[1].html # <<>>
    THEN first_phrase(doc_item[1].html) \o <<"\n", "\n">>
    ELSE <<>>

\* The close of struct_doc and of function_doc: the formatted documentation
\* item, if there is one.
doc_item_block(doc_item) ==
    IF doc_item # None THEN format_doc_item(doc_item[1]) ELSE <<>>

\* module_doc
module_doc(module, database) ==
    CASE module.kind = "CrateRoot" -> Ok(<<"Crate root">>)
      [] module.kind = "Ffi" -> Ok(<<"Functions provided by the C++ wrapper library">>)
      [] module.kind = "Ops" -> Ok(<<"Functions that provide access to C++ operators">>)
      [] module.kind = "SizedTypes" ->
            Ok(<<"Types with the same size and alignment as corresponding C++ types">>)
      [] module.kind = "CppNamespace" ->
            IF database.source_cpp_item = None THEN Err("source cpp item not found")
            ELSE IF database.source_cpp_item[1].kind # "Namespace"
            THEN Err("invalid source cpp item type")
            ELSE Ok(<<"C++ namespace: ">>
                        \o wrap_inline_cpp_code(database.source_cpp_item[1].path[1]))
      [] module.kind = "CppNestedTypes" ->
            IF database.source_cpp_item = None THEN Err("source cpp item not found")
            ELSE IF database.source_cpp_item[1].kind # "Type"
            THEN Err("invalid source cpp item type")
            ELSE Ok(<<"C++ type: ">>
                        \o wrap_inline_cpp_code(database.source_cpp_item[1].path[1]))

\* enum_value_doc
enum_value_doc(value, database) ==
    IF database.source_cpp_item = None THEN Err("source cpp item not found")
    ELSE IF database.source_cpp_item[1].kind # "EnumValue"
    THEN Err("invalid source cpp item type")
    ELSE LET doc == <<"C++ enum variant: ">>
                        \o wrap_inline_cpp_code(database.source_cpp_item[1].last
                                                    \o <<" = ", ToString(value.value)>>)
         IN  IF database.find_doc_for # None
             THEN Ok(database.find_doc_for[1].html \o <<" (">> \o doc \o <<")">>)
             ELSE Ok(doc)

\* Mutant of slot_wrapper_function_doc: a method without a rule gets an empty
\* document.
slot_wrapper_function_doc_default_empty(name) ==
    CASE name = "custom_slot" ->
            Ok(<<"Calls the slot directly, invoking the assigned handler (if any).\n",
                 "\n">>)
      [] name = "new" -> Ok(<<"Creates a new object.\n", "\n">>)
      [] name = "set" ->
            Ok(<<"Assigns ", BQ, "func", BQ, " as the signal handler.\n", "\n",
                 BQ, "func", BQ, " will be called each time a connected signal is emitted. ",
                 "Any previously assigned function will be deregistered. ",
                 "Passing ", BQ, "None", BQ,
                 " will deregister the handler without setting a new one.\n", "\n">>)
      [] OTHER -> Ok(<<>>)

\* function_doc, the documentation of a method of a slot wrapper: the match on
\* the last item of the function's path.
slot_wrapper_function_doc(name) ==
    CASE name = "custom_slot" ->
            Ok(<<"Calls the slot directly, invoking the assigned handler (if any).\n",
                 "\n">>)
      [] name = "new" -> Ok(<<"Creates a new object.\n", "\n">>)
      [] name = "set" ->
            Ok(<<"Assigns ", BQ, "func", BQ, " as the signal handler.\n", "\n",
                 BQ, "func", BQ, " will be called each time a connected signal is emitted. ",
                 "Any previously assigned function will be deregistered. ",
                 "Passing ", BQ, "None", BQ,
                 " will deregister the handler without setting a new one.\n", "\n">>)
      [] name \in {"meta_object", "qt_metacall", "qt_metacast", "static_meta_object",
                   "tr", "tr_utf8"} -> Ok(<<>>)
      [] OTHER -> Err("unknown slot wrapper method: " \o name)

\* function_doc, the sentence of a field accessor.
field_accessor_doc(accessor_type, field_text) ==
    CASE accessor_type = "CopyGetter" ->
            <<"Returns the value of the ">> \o field_text \o <<" field.">>
      [] accessor_type = "ConstRefGetter" ->
            <<"Returns a reference to the ">> \o field_text \o <<" field.">>
      [] accessor_type = "MutRefGetter" ->
            <<"Returns a mutable reference to the ">> \o field_text \o <<" field.">>
      [] accessor_type = "Setter" ->
            <<"Sets the value of the ">> \o field_text \o <<" field.">>

\* Mutant of function_kind_doc: a field accessor accepts any source item.
function_kind_doc_any_item_for_field(function, cpp_item, database) ==
    CASE function.kind.tag = "FfiWrapper" ->
            IF database.source_ffi_item = None THEN Err("source cpp item not found")
            ELSE IF database.source_ffi_item[1].tag # "Function"
            THEN Err("invalid source ffi item type")
            ELSE IF database.source_ffi_item[1].kind.tag = "Function"
            THEN IF cpp_item.kind # "Function" THEN Err("invalid source cpp item type")
                 ELSE Ok(<<"Calls C++ function: ">>
                             \o wrap_inline_cpp_code(cpp_item.short_text)
                             \o <<".\n\n">>)
            ELSE Ok(field_accessor_doc(database.source_ffi_item[1].kind.accessor_type,
                                       wrap_inline_cpp_code(cpp_item.last)))
      [] function.kind.tag = "SignalOrSlotGetter" ->
            IF cpp_item.kind # "Function" THEN Err("invalid source cpp item type")
            ELSE Ok(<<"Returns a built-in Qt ",
                      IF function.kind.receiver_type = "Signal" THEN "signal" ELSE "slot",
                      " ", BQ>> \o cpp_item.path[1]
                        \o <<BQ, " that can be passed to ", BQ,
                             "qt_core::Signal::connect", BQ, ".\n", "\n">>)
      [] function.kind.tag = "FfiFunction" -> Ok(<<>>)

\* function_doc, the match on the function's kind.
function_kind_doc(function, cpp_item, database) ==
    CASE function.kind.tag = "FfiWrapper" ->
            IF database.source_ffi_item = None THEN Err("source cpp item not found")
            ELSE IF database.source_ffi_item[1].tag # "Function"
            THEN Err("invalid source ffi item type")
            ELSE IF database.source_ffi_item[1].kind.tag = "Function"
            THEN IF cpp_item.kind # "Function" THEN Err("invalid source cpp item type")
                 ELSE Ok(<<"Calls C++ function: ">>
                             \o wrap_inline_cpp_code(cpp_item.short_text)
                             \o <<".\n\n">>)
            ELSE IF cpp_item.kind # "Field" THEN Err("invalid source cpp item type")
                 ELSE Ok(field_accessor_doc(database.source_ffi_item[1].kind.accessor_type,
                                            wrap_inline_cpp_code(cpp_item.last)))
      [] function.kind.tag = "SignalOrSlotGetter" ->
            IF cpp_item.kind # "Function" THEN Err("invalid source cpp item type")
            ELSE Ok(<<"Returns a built-in Qt ",
                      IF function.kind.receiver_type = "Signal" THEN "signal" ELSE "slot",
                      " ", BQ>> \o cpp_item.path[1]
                        \o <<BQ, " that can be passed to ", BQ,
                             "qt_core::Signal::connect", BQ, ".\n", "\n">>)
      [] function.kind.tag = "FfiFunction" -> Ok(<<>>)

\* function_doc
function_doc(function, database) ==
    IF database.source_cpp_item = None THEN Err("source cpp item not found")
    ELSE IF database.item = None THEN Err("invalid item type")
    ELSE LET cpp_item == database.source_cpp_item[1]
             is_trait_impl == database.item[1].is_trait_impl
             has_source_slot_wrapper ==
                 /\ database.cpp_ffi_item # None
                 /\ database.cpp_ffi_item[1].tag = "QtSlotWrapper"
             body == function_kind_doc(function, cpp_item, database)
         IN  IF /\ has_source_slot_wrapper
                /\ function.kind.tag # "FfiFunction"
                /\ ~is_trait_impl
             THEN slot_wrapper_function_doc(function.name)
             ELSE IF ~body.ok THEN body
             ELSE Ok(doc_first_phrase(database.find_doc_for) \o body.value
                         \o doc_item_block(database.find_doc_for))

\* struct_doc, "no arguments" or the arguments' Rust code joined by commas.
slot_arguments_text(arguments) ==
    IF arguments = <<>> THEN <<"no arguments">>
    ELSE <<"arguments ", BQ>> \o join(arguments, <<",">>) \o <<BQ>>

\* struct_doc, the sentence with the C++ argument types of the signal, if any.
signal_arguments_text(signal_arguments) ==
    IF signal_arguments # <<>>
    THEN <<"Corresponding C++ argument types: (">>
             \o wrap_inline_cpp_code(join(signal_arguments, <<", ">>))
             \o <<").\n", "\n">>
    ELSE <<>>

\* struct_doc, the closing paragraph for a raw slot wrapper.
T_raw_slot_usage ==
    <<"Create an object using ", BQ, "new()", BQ,
      " and bind your function and payload using ", BQ, "set()", BQ, ". ",
      "The function will receive the payload as its first arguments, ",
      "and the rest of arguments will be values passed ",
      "through the Qt connection system. ",
      "Use ", BQ, "connect()", BQ, " method of a ", BQ, "qt_core::Signal", BQ, " object ",
      "to connect the signal to this slot. ",
      "The callback function will be executed each time the slot is invoked ",
      "until source signals are disconnected or the slot object is destroyed.\n\n",
      "If ", BQ, "set()", BQ, " was not called, slot invocation has no effect.\n", "\n">>

\* struct_doc, the closing paragraph for a closure slot wrapper.
T_closure_slot_usage ==
    <<"Create an object using ", BQ, "new()", BQ,
      " and bind your closure using ", BQ, "set()", BQ, ". ",
      "The closure will be called with the signal's arguments ",
      "when the slot is invoked. ",
      "Use ", BQ, "connect()", BQ, " method of a ", BQ, "qt_core::Signal", BQ,
      " object to connect ",
      "the signal to this slot. The closure will be executed each time ",
      "the slot is invoked until source signals are disconnected ",
      "or the slot object is destroyed. \n\n",
      "The slot object takes ownership of the passed closure. ",
      "If ", BQ, "set()", BQ, " is called again, ",
      "previously set closure is dropped. ",
      "Make sure that the slot object does not outlive ",
      "objects referenced by the closure. \n\n",
      "If ", BQ, "set()", BQ, " was not called, slot invocation has no effect.\n", "\n">>

\* struct_doc, a wrapper type: the C++ type's name, or, for a raw slot wrapper,
\* the text that replaces everything written before it.
wrapper_type_doc(type1, database, opening) ==
    IF database.source_cpp_item = None THEN Err("source cpp item not found")
    ELSE IF database.source_cpp_item[1].path = None
    THEN Err("cpp item expected to have path")
    ELSE LET cpp_type_code == database.source_cpp_item[1].path[1]
             type_text ==
                 CASE type1.kind.wrapper = "EnumWrapper" ->
                         <<"C++ enum: ">> \o wrap_inline_cpp_code(cpp_type_code)
                             \o <<".\n", "\n">>
                   [] type1.kind.wrapper = "ImmovableClassWrapper" ->
                         <<"C++ class: ">> \o wrap_inline_cpp_code(cpp_type_code)
                             \o <<".\n", "\n">>
                   [] type1.kind.wrapper = "MovableClassWrapper" -> <<>>
         IN  IF type1.raw_slot_wrapper_data = None THEN Ok(opening \o type_text)
             ELSE IF database.cpp_ffi_item = None THEN Err("source ffi item not found")
             ELSE IF database.cpp_ffi_item[1].tag # "QtSlotWrapper"
             THEN Err("invalid source ffi item type")
             ELSE Ok(<<"Binds a Qt signal with ">>
                         \o slot_arguments_text(type1.raw_slot_wrapper_data[1].arguments)
                         \o <<" to a Rust extern function.\n", "\n">>
                         \o <<"It's recommended to use ", BQ>>
                         \o type1.raw_slot_wrapper_data[1].closure_wrapper
                         \o <<BQ, " instead because it provides a more high-level API.\n",
                              "\n">>
                         \o signal_arguments_text(database.cpp_ffi_item[1].signal_arguments)
                         \o T_raw_slot_usage)

\* struct_doc, a closure slot wrapper.
qt_slot_wrapper_doc(type1, database, opening) ==
    IF database.source_cpp_item = None THEN Err("source cpp item not found")
    ELSE IF database.cpp_ffi_item = None THEN Err("source ffi item not found")
    ELSE IF database.cpp_ffi_item[1].tag # "QtSlotWrapper"
    THEN Err("invalid source ffi item type")
    ELSE Ok(opening
                \o <<"Binds a Qt signal with ">>
                \o slot_arguments_text(type1.kind.arguments)
                \o <<" to a Rust closure.\n", "\n">>
                \o signal_arguments_text(database.cpp_ffi_item[1].signal_arguments)
                \o T_closure_slot_usage)

\* struct_doc
struct_doc(type1, database) ==
    LET opening == doc_first_phrase(database.find_doc_for)
        body == CASE type1.kind.tag = "WrapperType" ->
                        wrapper_type_doc(type1, database, opening)
                  [] type1.kind.tag = "QtSlotWrapper" ->
                        qt_slot_wrapper_doc(type1, database, opening)
                  [] type1.kind.tag = "SizedType" -> Ok(opening)
    IN  IF ~body.ok THEN body
        ELSE Ok(body.value \o doc_item_block(database.find_doc_for))

\* --------------------------------------------- documentation requests

\* A C++ item of the database, with the texts the formatter reads from it:
\* the pseudo-code of its path (a class base has no path), the name of the
\* path's last item, and a function's short text.
CppItem(kind) ==
    [kind |-> kind,
     path |-> IF kind = "ClassBase" THEN None ELSE Some(<<"N", ":", ":", "x">>),
     last |-> <<"x">>,
     short_text |-> <<"void N::x()">>]

CppItemKinds == {"Namespace", "Type", "EnumValue", "Function", "Field", "ClassBase"}

\* DatabaseClient::source_cpp_item: the C++ item an item was made from, if any.
SourceCppItems == {None} \cup { Some(CppItem(k)) : k \in CppItemKinds }

\* DocItem
DocItem(html, url, mismatched_declaration) ==
    [html |-> html, url |-> url, mismatched_declaration |-> mismatched_declaration]

EmptyDoc == DocItem(<<>>, Some(<<"u">>), None)

MismatchedDoc == DocItem(<<"a", ".", "b", "<", "/", "p", ">", "c">>, None, Some(<<"d">>))

PlainDoc == DocItem(<<"a", "b">>, None, None)

\* DatabaseClient::find_doc_for
DocItems == {None, Some(EmptyDoc), Some(MismatchedDoc)}

\* CppFfiItem::QtSlotWrapper
QtSlotWrapperItem(signal_arguments) ==
    [tag |-> "QtSlotWrapper", signal_arguments |-> signal_arguments]

\* CppFfiItem::Function
FfiFunctionItem(kind) == [tag |-> "Function", kind |-> kind]

CppFieldAccessorType == {"CopyGetter", "ConstRefGetter", "MutRefGetter", "Setter"}

\* CppFfiFunctionKind
CppFfiFunctionKind ==
    {[tag |-> "Function"]} \cup
    { [tag |-> "FieldAccessor", accessor_type |-> t] : t \in CppFieldAccessorType }

\* DatabaseClient::source_ffi_item of the function itself.
SourceFfiItems ==
    {None, Some(QtSlotWrapperItem(<<>>))}
        \cup { Some(FfiFunctionItem(k)) : k \in CppFfiFunctionKind }

\* DatabaseClient::source_ffi_item of the source C++ item.
CppFfiItems ==
    {None, Some(QtSlotWrapperItem(<<>>)), Some(QtSlotWrapperItem(<< <<"int">>, <<"QString">> >>)),
     Some(FfiFunctionItem([tag |-> "Function"]))}

\* DatabaseClient::item(..).as_rust_item(), with the item's is_trait_impl().
RustItems == {None, Some([is_trait_impl |-> FALSE]), Some([is_trait_impl |-> TRUE])}

\* RustFunctionKind
RustFunctionKind ==
    {[tag |-> "FfiWrapper"], [tag |-> "FfiFunction"],
     [tag |-> "SignalOrSlotGetter", receiver_type |-> "Signal"],
     [tag |-> "SignalOrSlotGetter", receiver_type |-> "Slot"]}

\* The method names function_doc has a rule for on a slot wrapper.
SlotWrapperMethods ==
    {"custom_slot", "new", "set", "meta_object", "qt_metacall", "qt_metacast",
     "static_meta_object", "tr", "tr_utf8"}

\* The last path item of the functions under test.
MethodNames == SlotWrapperMethods \cup {"connect", "New"}

\* RustModuleKind
RustModuleKind == {"CrateRoot", "Ffi", "Ops", "SizedTypes", "CppNamespace", "CppNestedTypes"}

\* RustStructKind
RustStructKind ==
    { [tag |-> "WrapperType", wrapper |-> w] :
          w \in {"EnumWrapper", "ImmovableClassWrapper", "MovableClassWrapper"} }
        \cup { [tag |-> "QtSlotWrapper", arguments |-> a] :
                   a \in {<<>>, << <<"i32">>, <<"bool">> >>} }
        \cup {[tag |-> "SizedType"]}

\* RustStruct::raw_slot_wrapper_data
RawSlotWrapperData ==
    {None} \cup
    { Some([arguments |-> a, closure_wrapper |-> <<"SlotOfInt">>]) :
          a \in {<<>>, << <<"i32">>, <<"bool">> >>} }

\* The fragments html texts are assembled from.
Fragments == {<<"a">>, T_dot, T_p_close, <<"<">>, <<"p", ">">>}

Htmls == { join(s, <<>>) : s \in SeqsUpTo(Fragments, MaxPieces) }

\* The lookups a request does not make.
NoLookups ==
    [source_cpp_item |-> None, item |-> None, cpp_ffi_item |-> None,
     source_ffi_item |-> None, find_doc_for |-> None]

ModuleRequests ==
    { [req |-> "module", item |-> [kind |-> k],
       database |-> [NoLookups EXCEPT !.source_cpp_item = c]] :
          k \in RustModuleKind, c \in SourceCppItems }

EnumValueRequests ==
    { [req |-> "enum_value", item |-> [value |-> v],
       database |-> [NoLookups EXCEPT !.source_cpp_item = c, !.find_doc_for = d]] :
          v \in {-1, 0, 7}, c \in SourceCppItems, d \in DocItems \cup {Some(PlainDoc)} }

StructRequests ==
    { [req |-> "struct", item |-> [kind |-> k, raw_slot_wrapper_data |-> w],
       database |-> [NoLookups EXCEPT !.source_cpp_item = c, !.cpp_ffi_item = i,
                                      !.find_doc_for = d]] :
          k \in RustStructKind, w \in RawSlotWrapperData, c \in SourceCppItems,
          i \in CppFfiItems, d \in DocItems \cup {Some(PlainDoc)} }

\* The request to document function [kind, name] with the database's answers
\* c (source C++ item), r (the item itself), i (FFI item of the source item),
\* s (FFI item of the function) and d (documentation).
FunctionRequest(k, n, c, r, i, s, d) ==
    [req |-> "function", item |-> [kind |-> k, name |-> n],
     database |-> [source_cpp_item |-> c, item |-> r, cpp_ffi_item |-> i,
                   source_ffi_item |-> s, find_doc_for |-> d]]

HtmlRequests ==
    { [req |-> "html", item |-> [html |-> t], database |-> NoLookups] : t \in Htmls }

DocRequests ==
    ModuleRequests \cup EnumValueRequests \cup StructRequests \cup HtmlRequests

\* Documentation harness: one request to the formatter.
InitDoc ==
    /\ f = FreeFunction
    /\ g = f
    /\ h = f
    /\ \/ data \in DocRequests
       \/ \E k \in RustFunctionKind, n \in MethodNames, c \in SourceCppItems,
             r \in RustItems, i \in CppFfiItems \ {Some(QtSlotWrapperItem(<<>>))},
             s \in SourceFfiItems, d \in DocItems :
              data = FunctionRequest(k, n, c, r, i, s, d)
    /\ op = "init"
    /\ res = None
    /\ handles = <<>>
    /\ released = <<>>

ModuleDoc ==
    /\ data.req = "module"
    /\ op' = "module_doc"
    /\ res' = Returned(module_doc(data.item, data.database))
    /\ UNCHANGED <<f, g, h, data, handles, released>>

EnumValueDoc ==
    /\ data.req = "enum_value"
    /\ op' = "enum_value_doc"
    /\ res' = Returned(enum_value_doc(data.item, data.database))
    /\ UNCHANGED <<f, g, h, data, handles, released>>

StructDoc ==
    /\ data.req = "struct"
    /\ op' = "struct_doc"
    /\ res' = Returned(struct_doc(data.item, data.database))
    /\ UNCHANGED <<f, g, h, data, handles, released>>

FunctionDoc ==
    /\ data.req = "function"
    /\ op' = "function_doc"
    /\ res' = Returned(function_doc(data.item, data.database))
    /\ UNCHANGED <<f, g, h, data, handles, released>>

FirstPhrase ==
    /\ data.req = "html"
    /\ op' = "first_phrase"
    /\ res' = Returned(first_phrase(data.item.html))
    /\ UNCHANGED <<f, g, h, data, handles, released>>

NextDoc == ModuleDoc \/ EnumValueDoc \/ StructDoc \/ FunctionDoc \/ FirstPhrase

SpecDoc == InitDoc /\ [][NextDoc]_vars

\* ------------------------------------------------- documentation claims

\* The request reaches the slot-wrapper rules of function_doc: its source item
\* exists and has a slot wrapper made from it, and the function is neither an
\* FFI function nor a trait implementation.
IsSlotWrapperMethod ==
    /\ data.database.source_cpp_item # None
    /\ data.database.item # None
    /\ ~data.database.item[1].is_trait_impl
    /\ data.database.cpp_ffi_item # None
    /\ data.database.cpp_ffi_item[1].tag = "QtSlotWrapper"
    /\ data.item.kind.tag # "FfiFunction"

\* C14: function_doc on a method of a slot wrapper fails with "unknown slot
\* wrapper method" for every method name outside custom_slot, new, set,
\* meta_object, qt_metacall, qt_metacast, static_meta_object, tr, tr_utf8, and
\* succeeds for every name among them.
C14_UnknownSlotMethod ==
    op = "function_doc" /\ IsSlotWrapperMethod =>
        /\ data.item.name \in {"custom_slot", "new", "set", "meta_object", "qt_metacall",
                               "qt_metacast", "static_meta_object", "tr", "tr_utf8"} =>
               res.value.ok
        /\ data.item.name \notin {"custom_slot", "new", "set", "meta_object", "qt_metacall",
                                  "qt_metacast", "static_meta_object", "tr", "tr_utf8"} =>
               /\ ~res.value.ok
               /\ res.value.error = "unknown slot wrapper method: " \o data.item.name

\* C14 witness: function_doc has refused the method "connect" of a slot
\* wrapper, for a wrapper function whose documentation exists.
C14_Witness ==
    /\ op = "function_doc"
    /\ IsSlotWrapperMethod
    /\ data.item.kind.tag = "FfiWrapper"
    /\ data.item.name = "connect"
    /\ data.database.find_doc_for = Some(MismatchedDoc)
    /\ res = Returned(Err("unknown slot wrapper method: connect"))

\* The error kind of a failed rendering.
ErrorKind(result) ==
    IF result.ok THEN "none"
    ELSE IF result.error \in {"source cpp item not found", "source ffi item not found"}
    THEN "MissingSourceDeclaration"
    ELSE IF result.error \in {"invalid source cpp item type", "invalid source ffi item type"}
    THEN "InvalidSourceItemKind"
    ELSE "other"

\* The shape of source item a request requires, "any" when it requires none.
RequiredShape ==
    CASE data.req = "module" /\ data.item.kind = "CppNamespace" -> "Namespace"
      [] data.req = "module" /\ data.item.kind = "CppNestedTypes" -> "Type"
      [] data.req = "enum_value" -> "EnumValue"
      [] data.req = "function" /\ data.database.item # None /\ ~IsSlotWrapperMethod
             /\ data.item.kind.tag = "FfiWrapper"
             /\ data.database.source_ffi_item # None
             /\ data.database.source_ffi_item[1].tag = "Function" ->
            IF data.database.source_ffi_item[1].kind.tag = "Function" THEN "Function"
            ELSE "Field"
      [] OTHER -> "any"

\* C15: module_doc, enum_value_doc and function_doc fail with a missing-source
\* error when the database has no source item for the item, and with an
\* invalid-source-kind error when the source item has not the required shape
\* (namespace or type for a module, enum value for an enum value, function or
\* field for a wrapper of an FFI function or field accessor); the modules
\* CrateRoot, Ffi, Ops and SizedTypes succeed whatever the database holds.
C15_SourceDeclaration ==
    op \in {"module_doc", "enum_value_doc", "function_doc"} =>
        /\ data.req = "module"
               /\ data.item.kind \in {"CrateRoot", "Ffi", "Ops", "SizedTypes"} =>
               res.value.ok
        /\ data.database.source_cpp_item = None
               /\ (data.req = "module" =>
                       data.item.kind \in {"CppNamespace", "CppNestedTypes"}) =>
               ErrorKind(res.value) = "MissingSourceDeclaration"
        /\ data.database.source_cpp_item # None /\ RequiredShape # "any"
               /\ data.database.source_cpp_item[1].kind # RequiredShape =>
               ErrorKind(res.value) = "InvalidSourceItemKind"
        /\ data.database.source_cpp_item # None /\ RequiredShape # "any"
               /\ data.database.source_cpp_item[1].kind = RequiredShape =>
               res.value.ok

\* C15 witness: function_doc has refused a wrapper of a field accessor whose
\* source item is a function.
C15_Witness ==
    /\ op = "function_doc"
    /\ data.item.kind.tag = "FfiWrapper"
    /\ data.database.source_cpp_item = Some(CppItem("Function"))
    /\ data.database.source_ffi_item # None
    /\ data.database.source_ffi_item[1].tag = "Function"
    /\ data.database.source_ffi_item[1].kind.tag = "FieldAccessor"
    /\ data.database.find_doc_for = Some(MismatchedDoc)
    /\ res = Returned(Err("invalid source cpp item type"))

\* Text t starts with text s.
StartsWith(t, s) == Len(s) <= Len(t) /\ SubSeq(t, 1, Len(s)) = s

\* Text t ends with text s, and s occurs nowhere earlier in t.
EndsWithFirst(t, s) ==
    /\ Len(s) <= Len(t)
    /\ SubSeq(t, Len(t) - Len(s) + 1, Len(t)) = s
    /\ \A i \in 1..(Len(t) - Len(s)) : SubSeq(t, i, i + Len(s) - 1) # s

\* Text s occurs in text t.
Contains(t, s) == \E i \in 1..(Len(t) - Len(s) + 1) : SubSeq(t, i, i + Len(s) - 1) = s

\* The html of the request's documentation, empty when there is none.
DocHtml ==
    IF data.database.find_doc_for = None THEN <<>>
    ELSE data.database.find_doc_for[1].html

\* The document opens with the first phrase of the documentation and an
\* empty line.
OpensWithFirstPhrase(document) ==
    \E phrase \in { SubSeq(DocHtml, 1, n) : n \in 0..Len(DocHtml) } :
        /\ StartsWith(document, phrase \o <<"\n", "\n">>)
        /\ Contains(DocHtml, <<"<", "/", "p", ">">>) =>
               EndsWithFirst(phrase, <<"<", "/", "p", ">">>)
        /\ ~Contains(DocHtml, <<"<", "/", "p", ">">>) /\ Contains(DocHtml, <<".">>) =>
               EndsWithFirst(phrase, <<".">>)
        /\ ~Contains(DocHtml, <<"<", "/", "p", ">">>) /\ ~Contains(DocHtml, <<".">>) =>
               phrase = DocHtml

\* C19: first_phrase returns a prefix of the html: up to the end of the first
\* "</p>" if there is one, even after a '.', else up to the first '.', else
\* the whole html.  A document of struct_doc or function_doc opens with the
\* first phrase only if the documentation's html is not empty, and does open
\* with it then unless the slot-wrapper text replaces the opening.
C19_FirstPhrase ==
    /\ op = "first_phrase" =>
           /\ StartsWith(data.item.html, res.value)
           /\ Contains(data.item.html, <<"<", "/", "p", ">">>) =>
                  EndsWithFirst(res.value, <<"<", "/", "p", ">">>)
           /\ ~Contains(data.item.html, <<"<", "/", "p", ">">>)
                  /\ Contains(data.item.html, <<".">>) =>
                  EndsWithFirst(res.value, <<".">>)
           /\ ~Contains(data.item.html, <<"<", "/", "p", ">">>)
                  /\ ~Contains(data.item.html, <<".">>) =>
                  res.value = data.item.html
    /\ op \in {"struct_doc", "function_doc"} /\ res.value.ok =>
           /\ OpensWithFirstPhrase(res.value.value) => DocHtml # <<>>
           /\ DocHtml # <<>>
                  /\ (op = "function_doc" => ~IsSlotWrapperMethod)
                  /\ (op = "struct_doc" =>
                          \/ data.item.kind.tag # "WrapperType"
                          \/ data.item.raw_slot_wrapper_data = None) =>
                  OpensWithFirstPhrase(res.value.value)

\* C19 witness: first_phrase has cut ".</p>a" after "</p>", past the '.'.
C19_Witness ==
    /\ op = "first_phrase"
    /\ data.item.html = <<".", "<", "/", "p", ">", "a">>
    /\ res = Returned(<<".", "<", "/", "p", ">">>)

\* ------------------------------------------------------ ownership algebra
\* The pointer wrappers of cpp_utils: CppBox (owned, non-null), Ptr (possibly
\* owned, possibly null), Ref (not owned, non-null).  handles lists the
\* handles created so far, released counts the releases of each foreign object.

\* The number of handles created in a run.
MaxHandles == 4

\* The number of foreign objects constructed in a run.
MaxObjects == 2

\* A handle of a kind to an object; state is "live", "moved" (ownership was
\* converted away), "dropped" (its scope ended) or "moved_dropped".
Handle(kind, object, state) == [kind |-> kind, object |-> object, state |-> state]

\* Mutant of drop: a handle that was moved away releases its object too.
drop_moved_too(handle, counts) ==
    IF handle.kind = "CppBox"
    THEN [counts EXCEPT ![handle.object] = @ + 1]
    ELSE counts

\* The end of a handle's lifetime: a CppBox that still owns its object releases
\* it through the type's deleter, once; no other handle releases anything.
drop(handle, counts) ==
    IF handle.kind = "CppBox" /\ handle.state = "live"
    THEN [counts EXCEPT ![handle.object] = @ + 1]
    ELSE counts

\* Ownership harness: no object and no handle yet.
InitOwn ==
    /\ f = FreeFunction
    /\ g = f
    /\ h = f
    /\ data = NoData
    /\ op = "init"
    /\ res = None
    /\ handles = <<>>
    /\ released = <<>>

\* Construction returns new ownership: a new object and its CppBox.
Construct ==
    /\ Len(handles) < MaxHandles
    /\ Len(released) < MaxObjects
    /\ released' = Append(released, 0)
    /\ handles' = Append(handles, Handle("CppBox", Len(released) + 1, "live"))
    /\ op' = "construct"
    /\ UNCHANGED <<f, g, h, data, res>>

\* A live handle lends a non-owning Ref; the lender is not consumed.
Borrow ==
    /\ Len(handles) < MaxHandles
    /\ \E i \in 1..Len(handles) :
           /\ handles[i].state = "live"
           /\ handles' = Append(handles, Handle("Ref", handles[i].object, "live"))
    /\ op' = "borrow"
    /\ UNCHANGED <<f, g, h, data, res, released>>

\* A CppBox is converted away from ownership into a Ptr; the CppBox is consumed.
Move ==
    /\ Len(handles) < MaxHandles
    /\ \E i \in 1..Len(handles) :
           /\ handles[i].kind = "CppBox"
           /\ handles[i].state = "live"
           /\ handles' = Append([handles EXCEPT ![i].state = "moved"],
                                Handle("Ptr", handles[i].object, "live"))
    /\ op' = "move"
    /\ UNCHANGED <<f, g, h, data, res, released>>

\* The scope of a handle ends.
EndScope ==
    /\ \E i \in 1..Len(handles) :
           /\ handles[i].state \in {"live", "moved"}
           /\ released' = drop(handles[i], released)
           /\ handles' = [handles EXCEPT ![i].state =
                              IF @ = "moved" THEN "moved_dropped" ELSE "dropped"]
    /\ op' = "end_scope"
    /\ UNCHANGED <<f, g, h, data, res>>

NextOwn == Construct \/ Borrow \/ Move \/ EndScope

SpecOwn == InitOwn /\ [][NextOwn]_vars

\* The CppBox handles of object o in one of the given states.
Boxes(o, states) ==
    { i \in 1..Len(handles) :
          /\ handles[i].kind = "CppBox"
          /\ handles[i].object = o
          /\ handles[i].state \in states }

\* C16: over construct, borrow, move and end-of-scope operations an object has
\* at most one live CppBox; it is released once iff the scope of its owning
\* CppBox has ended, never for a CppBox that was moved away, and never twice.
C16_Ownership ==
    \A o \in 1..Len(released) :
        /\ Cardinality(Boxes(o, {"live"})) <= 1
        /\ released[o] <= 1
        /\ released[o] = Cardinality(Boxes(o, {"dropped"}))
        /\ Boxes(o, {"moved", "moved_dropped"}) # {} => released[o] = 0
        /\ Cardinality(Boxes(o, {"live", "moved", "dropped", "moved_dropped"})) = 1

\* C16 witness: two objects were constructed; the first one's CppBox went out
\* of scope and released it, the second one's CppBox was moved away and then
\* went out of scope without a release.
C16_Witness ==
    /\ op = "end_scope"
    /\ released = <<1, 0>>
    /\ Boxes(1, {"dropped"}) # {}
    /\ Boxes(2, {"moved_dropped"}) # {}

====
